---- MODULE Spec2Model ----
(***************************************************************************)
(* Model of the page-creation flow of backend/server.js: the handler of    *)
(* POST /api/pages, the static page generator generateStaticPage, the      *)
(* pages table and the part of the file system under the frontend root,    *)
(* with the two clients of the server: the data loader of a generated page *)
(* (dataLoader.js) and the admin panel (frontend/js/adminPanel.js).        *)
(*                                                                         *)
(* Texts are sequences of tokens.  An HTML document is a sequence of the   *)
(* lexical pieces the generator's regular expressions tell apart (a tag, a *)
(* literal asset prefix such as  href="/style/ , white space, other text); *)
(* a name or slug is a sequence of characters.  Every regular expression   *)
(* of the source is an operator that scans such a sequence the way the     *)
(* JavaScript engine scans the string: leftmost match first, greedy        *)
(* quantifiers, /g continuing after the end of each match.                 *)
(***************************************************************************)
EXTENDS Integers, Sequences, FiniteSets, TLC

VARIABLES
    files,      \* the file system's regular files: path -> text
    dirs,       \* the file system's directories (a set of paths)
    pages,      \* table pages: rows [id, name, slug]
    lastID,     \* AUTOINCREMENT counter of table pages
    nav,        \* table nav: rows [page_id, val], the id is the position
    welcome_header, \* table welcome_header: rows [page_id, val]
    footer,     \* table footer: rows [page_id, val]
    inbox,      \* POST /api/pages requests still to arrive: bodies [name, slug]
    reqs,       \* the requests received so far, each with its position
    writing,    \* the writeFileSync call in progress, or NoWrite
    observed,   \* what the last outside reader of a generated file saw
    panel,      \* the admin panel open in a browser (adminPanel.js)
    api,        \* the requests to the routes behind authenticateToken
    stats,      \* table stats: rows [page_id, val], the id is the position
    locations,  \* table locations: rows [page_id, val]
    video_frames, \* table video_frames: rows [page_id, file_path]
    gallery,    \* table gallery: rows [page_id, file_path]
    uploads     \* the files in backend/uploads (a set of file names)

vars == <<files, dirs, pages, lastID, nav, welcome_header, footer, inbox, reqs,
          writing, observed, panel, api, stats, locations, video_frames, gallery,
          uploads>>

apiVars == <<api, stats, locations, video_frames, gallery, uploads>>

(***************************************************************************)
(* Bounds of the model.                                                    *)
(***************************************************************************)
MaxFragments == 3
MaxNameLen == 3
MaxReqs == 2
MaxPageId == 3
MaxFetches == 2
MaxAdds == 1
MaxSaves == 3
MaxChanges == 1

(***************************************************************************)
(* Sequence helpers.                                                       *)
(***************************************************************************)
RECURSIVE Flatten(_)
Flatten(ss) ==
    IF ss = <<>> THEN <<>> ELSE Head(ss) \o Flatten(Tail(ss))

RECURSIVE SeqsUpTo(_, _)
SeqsUpTo(S, n) ==
    IF n = 0 THEN {<<>>}
    ELSE LET shorter == SeqsUpTo(S, n - 1)
         IN  shorter \cup {Append(s, x) : s \in shorter, x \in S}

Range(s) == {s[i] : i \in DOMAIN s}

Prefix(s, k) == SubSeq(s, 1, k)

FirstIndex(doc, S) ==
    IF \E i \in DOMAIN doc : doc[i] \in S
    THEN CHOOSE i \in DOMAIN doc :
             doc[i] \in S /\ \A j \in 1..(i - 1) : doc[j] \notin S
    ELSE 0

Count(doc, S) == Cardinality({i \in DOMAIN doc : doc[i] \in S})

(***************************************************************************)
(* Tokens of an HTML document.                                             *)
(***************************************************************************)
WsTokens == {" ", "\n"}

\* The tokens that contain the character '<'.
LtTokens ==
    {"<script>", "<script ", "</script>", "</head>", "</HEAD>", "</body>",
     "</BODY>", "<!-- dataLoader.js -->"}

\* The tokens that contain the text  dataLoader.js .
DataLoaderTokens ==
    {"src=\"/js/dataLoader.js", "src=\"../js/dataLoader.js",
     "<!-- dataLoader.js -->"}

HeadCloseTokens == {"</head>", "</HEAD>"}
BodyCloseTokens == {"</body>", "</BODY>"}

RECURSIVE SkipWhile(_, _, _)
\* The end of a greedy run X* that starts at position i: the first position
\* at or after i whose token is not in S.
SkipWhile(doc, i, S) ==
    IF i <= Len(doc) /\ doc[i] \in S THEN SkipWhile(doc, i + 1, S) ELSE i

TokenAt(doc, i) == IF i \in DOMAIN doc THEN doc[i] ELSE "<eof>"

NonLt(doc) == Range(doc) \ LtTokens

(***************************************************************************)
(* generateStaticPage, the text transform (server.js 417-447).             *)
(***************************************************************************)

\* One attempt of /<script>\s*window\.PAGE_ID\s*=\s*[^<]*<\/script>\s*/ at
\* position i: the position after the match, or 0 when there is no match at
\* i.  \s*[^<]* runs to the next token that holds a '<', which has to be the
\* closing script tag; no shorter run can end in one.
MatchPageIdAt(doc, i) ==
    LET a == SkipWhile(doc, i + 1, WsTokens)
        b == SkipWhile(doc, a + 1, WsTokens)
        c == SkipWhile(doc, b + 1, NonLt(doc))
        d == SkipWhile(doc, c + 1, WsTokens)
    IN  IF /\ TokenAt(doc, i) = "<script>"
           /\ TokenAt(doc, a) = "window.PAGE_ID"
           /\ TokenAt(doc, b) = "="
           /\ TokenAt(doc, c) = "</script>"
        THEN d
        ELSE 0

RECURSIVE StripFrom(_, _)
\* The /g replacement by '' from position i on: the matches are found left to
\* right in the original text, each search resuming where the last match ended.
StripFrom(doc, i) ==
    IF i > Len(doc) THEN <<>>
    ELSE LET e == MatchPageIdAt(doc, i)
         IN  IF e > 0 THEN StripFrom(doc, e)
             ELSE <<doc[i]>> \o StripFrom(doc, i + 1)

\* Generation without step 1: earlier declarations stay.
StripPageId_Keep(doc) == doc

\* template.replace(/<script>\s*window\.PAGE_ID\s*=\s*[^<]*<\/script>\s*/g, '')
StripPageId(doc) == StripFrom(doc, 1)

\* `<script>window.PAGE_ID = ${pageId};</script>`
Injection(pageId) ==
    <<"<script>", "window.PAGE_ID", " ", "=", " ", ToString(pageId) \o ";",
      "</script>">>

\* String.prototype.replace with a pattern without /g: the first match only.
ReplaceFirst(doc, S, repl) ==
    LET i == FirstIndex(doc, S)
    IN  IF i = 0 THEN doc
        ELSE SubSeq(doc, 1, i - 1) \o repl \o SubSeq(doc, i + 1, Len(doc))

\* String.prototype.replace with a literal pattern and /g.
ReplaceAll(doc, from, to) ==
    [i \in DOMAIN doc |-> IF doc[i] = from THEN to ELSE doc[i]]

\* The injection with a /g flag on the pattern: before every closing head tag.
InjectPageId_EveryHead(doc, pageId) ==
    Flatten([i \in DOMAIN doc |->
        IF doc[i] \in HeadCloseTokens
        THEN Injection(pageId) \o <<"\n", "</head>">>
        ELSE <<doc[i]>>])

\* template.replace(/<\/head>/i, `${injection}\n</head>`)
InjectPageId(doc, pageId) ==
    ReplaceFirst(doc, HeadCloseTokens, Injection(pageId) \o <<"\n", "</head>">>)

\* The rewrite without the line for src="/videos/.
RewriteAssets_NoVideoSrc(doc) ==
    LET r1 == ReplaceAll(doc, "href=\"/style/", "href=\"../style/")
        r2 == ReplaceAll(r1, "src=\"/script.js", "src=\"../script.js")
        r3 == ReplaceAll(r2, "src=\"/js/dataLoader.js", "src=\"../js/dataLoader.js")
        r4 == ReplaceAll(r3, "href=\"/images/", "href=\"../images/")
        r5 == ReplaceAll(r4, "src=\"/images/", "src=\"../images/")
        r6 == ReplaceAll(r5, "href=\"/videos/", "href=\"../videos/")
        r8 == ReplaceAll(r6, "href=\"/fonts/", "href=\"../fonts/")
        r9 == ReplaceAll(r8, "src=\"/fonts/", "src=\"../fonts/")
    IN  r9

\* The rewrite as a blind replacement of every leading slash of an href or
\* src value.
RewriteAssets_Blind(doc) ==
    LET r1 == ReplaceAll(doc, "href=\"/style/", "href=\"../style/")
        r2 == ReplaceAll(r1, "src=\"/script.js", "src=\"../script.js")
        r3 == ReplaceAll(r2, "src=\"/js/dataLoader.js", "src=\"../js/dataLoader.js")
        r4 == ReplaceAll(r3, "href=\"/images/", "href=\"../images/")
        r5 == ReplaceAll(r4, "src=\"/images/", "src=\"../images/")
        r6 == ReplaceAll(r5, "href=\"/videos/", "href=\"../videos/")
        r7 == ReplaceAll(r6, "src=\"/videos/", "src=\"../videos/")
        r8 == ReplaceAll(r7, "href=\"/fonts/", "href=\"../fonts/")
        r9 == ReplaceAll(r8, "src=\"/fonts/", "src=\"../fonts/")
        r10 == ReplaceAll(r9, "href=\"/api/", "href=\"../api/")
        r11 == ReplaceAll(r10, "src=\"/uploads/", "src=\"../uploads/")
    IN  r11

\* The nine chained replacements of root-relative asset prefixes.
RewriteAssets(doc) ==
    LET r1 == ReplaceAll(doc, "href=\"/style/", "href=\"../style/")
        r2 == ReplaceAll(r1, "src=\"/script.js", "src=\"../script.js")
        r3 == ReplaceAll(r2, "src=\"/js/dataLoader.js", "src=\"../js/dataLoader.js")
        r4 == ReplaceAll(r3, "href=\"/images/", "href=\"../images/")
        r5 == ReplaceAll(r4, "src=\"/images/", "src=\"../images/")
        r6 == ReplaceAll(r5, "href=\"/videos/", "href=\"../videos/")
        r7 == ReplaceAll(r6, "src=\"/videos/", "src=\"../videos/")
        r8 == ReplaceAll(r7, "href=\"/fonts/", "href=\"../fonts/")
        r9 == ReplaceAll(r8, "src=\"/fonts/", "src=\"../fonts/")
    IN  r9

\* `<script src="../js/dataLoader.js"></script>\n</body>`
LoaderTag ==
    <<"<script ", "src=\"../js/dataLoader.js", "\">", "</script>">>

\* template.includes('dataLoader.js')
IncludesDataLoader(doc) == Range(doc) \cap DataLoaderTokens # {}

\* if (!template.includes('dataLoader.js')) template = template.replace(/<\/body>/i, ...)
EnsureDataLoader(doc) ==
    IF ~IncludesDataLoader(doc)
    THEN ReplaceFirst(doc, BodyCloseTokens, LoaderTag \o <<"\n", "</body>">>)
    ELSE doc

\* The text generateStaticPage writes for a template text and a page id.
GenerateText(tpl, pageId) ==
    EnsureDataLoader(RewriteAssets(InjectPageId(StripPageId(tpl), pageId)))

(***************************************************************************)
(* Names, slugs and paths: sequences of characters.                        *)
(***************************************************************************)
WhitespaceChars == {" ", "\t"}

\* The characters of the model that lie in a-z, in 0-9, or are the hyphen.
SafeChars == {"a", "b", "e", "h", "i", "m", "o", "x", "7", "-"}

\* String.prototype.toLowerCase on one character.  U+017B (capital Z with
\* dot above) maps to U+017C; U+0130 (capital I with dot above) maps to the
\* two characters i, U+0307.
ToLowerChar(c) ==
    CASE c = "B" -> <<"b">>
      [] c = "U+017B" -> <<"U+017C">>
      [] c = "U+0130" -> <<"i", "U+0307">>
      [] OTHER -> <<c>>

\* name.toLowerCase()
ToLowerCase(s) == Flatten([i \in DOMAIN s |-> ToLowerChar(s[i])])

RECURSIVE CollapseFrom(_, _)
CollapseFrom(s, i) ==
    IF i > Len(s) THEN <<>>
    ELSE IF s[i] \in WhitespaceChars
         THEN <<"-">> \o CollapseFrom(s, SkipWhile(s, i, WhitespaceChars))
         ELSE <<s[i]>> \o CollapseFrom(s, i + 1)

\* The replacement with /\s/g for /\s+/g: a hyphen for each white space.
CollapseWhitespace_EachChar(s) ==
    [i \in DOMAIN s |-> IF s[i] \in WhitespaceChars THEN "-" ELSE s[i]]

\* .replace(/\s+/g, '-')
CollapseWhitespace(s) == CollapseFrom(s, 1)

\* .replace(/[^a-z0-9\-]/g, '')
StripUnsafe(s) == SelectSeq(s, LAMBDA c : c \in SafeChars)

\* slug = name.toLowerCase().replace(/\s+/g, '-').replace(/[^a-z0-9\-]/g, '')
DeriveSlug(name) == StripUnsafe(CollapseWhitespace(ToLowerCase(name)))

RECURSIVE SplitPath(_)
\* The segments of a path string between its '/' characters.
SplitPath(str) ==
    LET k == FirstIndex(str, {"/"})
    IN  IF k = 0 THEN <<str>>
        ELSE <<SubSeq(str, 1, k - 1)>> \o SplitPath(SubSeq(str, k + 1, Len(str)))

RECURSIVE Normalize(_, _)
\* path.normalize on an absolute path: empty and '.' segments are dropped, a
\* '..' segment removes the segment before it (none at the root).
Normalize(base, segs) ==
    IF segs = <<>> THEN base
    ELSE LET g == Head(segs)
         IN  IF g = <<>> \/ g = <<".">> THEN Normalize(base, Tail(segs))
             ELSE IF g = <<".", ".">>
                  THEN Normalize(Prefix(base, IF base = <<>> THEN 0 ELSE Len(base) - 1),
                                 Tail(segs))
                  ELSE Normalize(Append(base, g), Tail(segs))

\* path.join(base, str) for an absolute, normalized base
PathJoin(base, str) == Normalize(base, SplitPath(str))

\* __dirname of server.js
Dirname == << <<"app">>, <<"backend">> >>

\* path.join(__dirname, '..', 'frontend')
FrontendRoot == PathJoin(PathJoin(Dirname, <<".", ".">>), <<"frontend">>)

\* path.join(frontendRoot, 'index.html'); the name is the two tokens a slug
\* and the extension generateStaticPage appends to it can spell.
TemplatePath == PathJoin(FrontendRoot, <<"index", ".html">>)

\* path.join(frontendRoot, slug)
SlugDir(slug) == PathJoin(FrontendRoot, slug)

\* path.join(slugDir, `${slug}.html`)
SlugFile(slug) == PathJoin(SlugDir(slug), slug \o <<".html">>)

\* A path and the directories above it.
Ancestors(path) == {Prefix(path, k) : k \in 0..Len(path)}

ParentDir(path) == Prefix(path, IF path = <<>> THEN 0 ELSE Len(path) - 1)

(***************************************************************************)
(* The state: file system, database, requests.                             *)
(***************************************************************************)
\* A row of a content table: the page it belongs to and its values.  The
\* values are told apart by the page they were first stored for (0: the
\* empty strings a new row is inserted with).
Row(page_id, val) == [page_id |-> page_id, val |-> val]

\* A row that has been deleted: its id is not given again (AUTOINCREMENT).
Deleted == Row(0, 0)

\* A row of video_frames or gallery, with the name of its file in uploads.
FileRow(page_id, name) == [page_id |-> page_id, file_path |-> name]

NoWrite == [req |-> 0, path |-> <<>>, text |-> <<>>]

NotObserved == [seen |-> FALSE, path |-> <<>>, exists |-> FALSE, text |-> <<>>]

\* The admin panel when initAdmin has run (adminPanel.js 3-4, 20-28): page 1
\* is current, the first loadPages is on its way, the form is empty.  loads
\* and posts are the GET /api/pages and POST /api/pages requests not yet
\* answered, fetches the pageId of each /api/home request not yet answered,
\* shown the page whose data fills the form (0: none), saving the step of a
\* running saveAll and the request it waits for (<<>>: none runs).
PanelStart ==
    [currentPageId |-> 1, currentPageName |-> <<>>, list |-> {}, loads |-> 1,
     posts |-> {}, fetches |-> <<>>, shown |-> 0, saving |-> <<>>]

\* The slug of the page the server seeds at start-up (server.js 125).
HomeSlug == <<"h", "o", "m", "e">>

HomeName == <<"Strona glowna">>

\* The pages created before the run starts: page 1 is the seeded home page,
\* page i > 1 an earlier page creation with its generated document.
OldSlug(i) == IF i = 1 THEN HomeSlug ELSE <<"o", ToString(i)>>

OldName(i) == IF i = 1 THEN HomeName ELSE <<"O", ToString(i)>>

OldPages(n) == {[id |-> i, name |-> OldName(i), slug |-> OldSlug(i)] : i \in 1..n}

OldFiles(tpl, n) ==
    [p \in {TemplatePath} \cup {SlugFile(OldSlug(i)) : i \in 2..n} |->
        IF p = TemplatePath THEN tpl
        ELSE GenerateText(tpl, CHOOSE i \in 2..n : SlugFile(OldSlug(i)) = p)]

OldDirs(n) ==
    Ancestors(Dirname) \cup Ancestors(FrontendRoot)
        \cup UNION {Ancestors(SlugDir(OldSlug(i))) : i \in 2..n}

\* The state after start-up with template text tpl, n pages in the database,
\* the requests of box to POST /api/pages past authenticateToken and the
\* requests of calls on their way.  Each page has its rows in nav,
\* welcome_header and footer and its copy of the two default stats (server.js
\* 122-140, 377-387); page 1 has a location, a video frame and a gallery image
\* from earlier uploads.
InitFull(tpl, n, box, calls) ==
    /\ files = OldFiles(tpl, n)
    /\ dirs = OldDirs(n)
    /\ pages = OldPages(n)
    /\ lastID = n
    /\ nav = [i \in 1..n |-> Row(i, i)]
    /\ welcome_header = [i \in 1..n |-> Row(i, i)]
    /\ footer = [i \in 1..n |-> Row(i, i)]
    /\ inbox = box
    /\ reqs = <<>>
    /\ writing = NoWrite
    /\ observed = NotObserved
    /\ panel = PanelStart
    /\ api = calls
    /\ stats = [j \in 1..(2 * n) |-> Row((j + 1) \div 2, 1)]
    /\ locations = <<Row(1, 1)>>
    /\ video_frames = <<FileRow(1, <<0, 1>>)>>
    /\ gallery = <<FileRow(1, <<0, 2>>)>>
    /\ uploads = {<<0, 1>>, <<0, 2>>}

\* The same with no request to the routes behind authenticateToken.
InitWith(tpl, n, box) == InitFull(tpl, n, box, <<>>)

\* The template as the server finds it on disk.
Template == files[TemplatePath]

SlugTaken(slug) == \E p \in pages : p.slug = slug

Respond(q, status, body) ==
    [q EXCEPT !.pc = "done", !.status = status, !.body = body]

(***************************************************************************)
(* POST /api/pages (server.js 365-399).                                    *)
(***************************************************************************)

\* Lines 366-372: the handler runs up to the SELECT it issues.
Receive ==
    /\ inbox # <<>>
    /\ writing = NoWrite
    /\ LET b == Head(inbox)
           q == [name |-> b.name, given |-> b.slug,
                 slug |-> IF b.name # <<>> /\ b.slug = <<>>
                          THEN DeriveSlug(b.name)
                          ELSE b.slug,
                 pc |-> "select", id |-> 0, status |-> 0, body |-> "none",
                 gen |-> "none"]
       IN  reqs' = Append(reqs,
                IF b.name = <<>>
                THEN Respond(q, 400, "Brak nazwy strony")
                ELSE q)
    /\ inbox' = Tail(inbox)
    /\ UNCHANGED <<files, dirs, pages, lastID, nav, welcome_header, footer,
                   writing, observed, panel, apiVars>>

\* Lines 372-374: the callback of SELECT id FROM pages WHERE slug=?
SelectDone(r) ==
    /\ reqs[r].pc = "select"
    /\ writing = NoWrite
    /\ reqs' = [reqs EXCEPT ![r] =
                    IF SlugTaken(reqs[r].slug)
                    THEN Respond(@, 400, "Slug zajety")
                    ELSE [@ EXCEPT !.pc = "insert"]]
    /\ UNCHANGED <<files, dirs, pages, lastID, nav, welcome_header, footer,
                   inbox, writing, observed, panel, apiVars>>

\* The insert into a pages table without the UNIQUE constraint on slug.
InsertDone_NoUnique(r) ==
    /\ reqs[r].pc = "insert"
    /\ writing = NoWrite
    /\ lastID' = lastID + 1
    /\ pages' = pages \cup {[id |-> lastID + 1, name |-> reqs[r].name,
                             slug |-> reqs[r].slug]}
    /\ nav' = Append(nav, Row(lastID + 1, 0))
    /\ welcome_header' = Append(welcome_header, Row(lastID + 1, 0))
    /\ footer' = Append(footer, Row(lastID + 1, 0))
    /\ reqs' = [reqs EXCEPT ![r] = [@ EXCEPT !.pc = "stats", !.id = lastID + 1]]
    /\ UNCHANGED <<files, dirs, inbox, writing, observed, panel, apiVars>>

\* Lines 374-382: INSERT INTO pages and its callback.  slug is UNIQUE
\* (line 45), so the insert fails when a row with the slug exists by now.
InsertDone(r) ==
    /\ reqs[r].pc = "insert"
    /\ writing = NoWrite
    /\ IF SlugTaken(reqs[r].slug)
       THEN /\ reqs' = [reqs EXCEPT ![r] = Respond(@, 500, "Blad tworzenia strony")]
            /\ UNCHANGED <<pages, lastID, nav, welcome_header, footer>>
       ELSE /\ lastID' = lastID + 1
            /\ pages' = pages \cup {[id |-> lastID + 1, name |-> reqs[r].name,
                                     slug |-> reqs[r].slug]}
            /\ nav' = Append(nav, Row(lastID + 1, 0))
            /\ welcome_header' = Append(welcome_header, Row(lastID + 1, 0))
            /\ footer' = Append(footer, Row(lastID + 1, 0))
            /\ reqs' = [reqs EXCEPT ![r] = [@ EXCEPT !.pc = "stats", !.id = lastID + 1]]
    /\ UNCHANGED <<files, dirs, inbox, writing, observed, panel, apiVars>>

(***************************************************************************)
(* generateStaticPage (server.js 408-454), called from the callback of the *)
(* stats SELECT (lines 382-396).  Its calls are synchronous: no other      *)
(* handler of the server runs before it returns, but the file server that  *)
(* serves the frontend directory is another process and reads at any time. *)
(***************************************************************************)

\* fs.mkdirSync(slugDir, { recursive: true }) cannot succeed when a regular
\* file stands where a directory is needed.
MkdirBlocked(slug) == Ancestors(SlugDir(slug)) \cap DOMAIN files # {}

\* Opening slugFile for writing cannot succeed when its directory does not
\* exist or the path is a directory.
OpenBlocked(slug, ds) ==
    \/ ParentDir(SlugFile(slug)) \notin ds
    \/ SlugFile(slug) \in ds

\* How far generateStaticPage gets before writeFileSync starts to write, given
\* the fault the environment raises ("none", "mkdir", "read" or "open").
ReachedStep(slug, fault) ==
    IF fault = "mkdir" \/ MkdirBlocked(slug) THEN "mkdir"
    ELSE IF fault = "read" \/ TemplatePath \notin DOMAIN files THEN "read"
    ELSE IF fault = "open" \/ OpenBlocked(slug, dirs \cup Ancestors(SlugDir(slug)))
         THEN "open"
         ELSE "write"

WithFile(fs, path, text) ==
    [p \in DOMAIN fs \cup {path} |-> IF p = path THEN text ELSE fs[p]]

\* Lines 382-396 and 408-449: the callback of the stats SELECT calls
\* generateStaticPage, which creates the directory, reads the template, builds
\* the text and opens the file (truncating it).  An exception thrown on the way
\* is caught and logged (451-453), and the handler answers res.json({id, name,
\* slug}) all the same.
StatsDone(r) ==
    /\ reqs[r].pc = "stats"
    /\ writing = NoWrite
    /\ stats' = stats \o [j \in 1..Len(SelectSeq(stats, LAMBDA row : row.page_id = 1)) |->
                             Row(reqs[r].id,
                                 SelectSeq(stats, LAMBDA row : row.page_id = 1)[j].val)]
    /\ \E fault \in {"none", "mkdir", "read", "open"} :
         LET slug == reqs[r].slug
             step == ReachedStep(slug, fault)
         IN  /\ dirs' = IF step = "mkdir" THEN dirs
                        ELSE dirs \cup Ancestors(SlugDir(slug))
             /\ IF step = "write"
                THEN /\ files' = WithFile(files, SlugFile(slug), <<>>)
                     /\ writing' = [req |-> r, path |-> SlugFile(slug),
                                    text |-> GenerateText(Template, reqs[r].id)]
                     /\ reqs' = [reqs EXCEPT ![r] = [@ EXCEPT !.pc = "writing"]]
                ELSE /\ reqs' = [reqs EXCEPT ![r] =
                                    Respond([@ EXCEPT !.gen = step], 200, "page")]
                     /\ UNCHANGED <<files, writing>>
    /\ UNCHANGED <<pages, lastID, nav, welcome_header, footer, inbox, observed,
                   panel, api, locations, video_frames, gallery, uploads>>

\* What a write that fails part-way leaves in the file: nothing, or the first
\* half of the text.
WrittenText(text, outcome) ==
    CASE outcome = "ok" -> text
      [] outcome = "fail0" -> <<>>
      [] OTHER -> Prefix(text, Len(text) \div 2)

\* Line 449, the rest of fs.writeFileSync: the text is written, or the write
\* fails part-way and throws; lines 390/394 then answer.
WriteDone(r) ==
    /\ writing.req = r
    /\ \E outcome \in {"ok", "fail0", "failHalf"} :
         /\ files' = WithFile(files, writing.path, WrittenText(writing.text, outcome))
         /\ reqs' = [reqs EXCEPT ![r] =
                        Respond([@ EXCEPT !.gen = IF outcome = "ok" THEN "ok" ELSE "write"],
                                200, "page")]
    /\ writing' = NoWrite
    /\ UNCHANGED <<dirs, pages, lastID, nav, welcome_header, footer, inbox, observed,
                   panel, apiVars>>

\* The static file server reads the generated file of a registered page.
ReadPage(r) ==
    /\ reqs[r].id > 0
    /\ LET p == SlugFile(reqs[r].slug)
       IN  observed' = [seen |-> TRUE, path |-> p, exists |-> p \in DOMAIN files,
                        text |-> IF p \in DOMAIN files THEN files[p] ELSE <<>>]
    /\ observed' # observed
    /\ UNCHANGED <<files, dirs, pages, lastID, nav, welcome_header, footer, inbox,
                   reqs, writing, panel, apiVars>>

Next ==
    \/ Receive
    \/ \E r \in DOMAIN reqs : SelectDone(r)
    \/ \E r \in DOMAIN reqs : InsertDone(r)
    \/ \E r \in DOMAIN reqs : StatsDone(r)
    \/ \E r \in DOMAIN reqs : WriteDone(r)
    \/ \E r \in DOMAIN reqs : ReadPage(r)

(***************************************************************************)
(* Inputs.                                                                 *)
(***************************************************************************)
Body(name, slug) == [name |-> name, slug |-> slug]

\* A template with a stylesheet, a head, an image, the main script and a body.
BaseTemplate ==
    <<"href=\"/style/", "</head>", "src=\"/images/", "src=\"/script.js", "</body>">>

\* The pieces templates are put together from.
Fragments ==
    { <<"</head>">>,
      <<"</HEAD>">>,
      <<"</body>">>,
      <<"<script>", "window.PAGE_ID", " ", "=", " ", "9;", "</script>", "\n">>,
      <<"<script>", "window.PAGE_ID", "=">>,
      <<"</script>">>,
      <<"<script ", "defer>", "window.PAGE_ID", "=", "9;", "</script>">>,
      <<"href=\"/style/", "src=\"/script.js", "href=\"/images/", "src=\"/images/",
        "href=\"/videos/", "src=\"/videos/", "href=\"/fonts/", "src=\"/fonts/">>,
      <<"<script ", "src=\"/js/dataLoader.js", "\">", "</script>">>,
      <<"href=\"../style/", "href=\"/api/", "src=\"/uploads/", "href=\"https://">>,
      <<"<!-- dataLoader.js -->">> }

Templates == {Flatten(fs) : fs \in SeqsUpTo(Fragments, MaxFragments)}

NameChars == {"a", "B", "7", " ", "\t", "-", "U+017B", "U+0130"}

Names == SeqsUpTo(NameChars, MaxNameLen)

\* Slugs given in the request body; <<>> is a body without slug.
\* A slug that climbs from the frontend root to the root of the file system
\* and comes back down to the template, named without its extension.
ClimbingSlug ==
    <<".", ".", "/", ".", ".", "/", ".", ".", "/",
      "app", "/", "frontend", "/", "index">>

ExplicitSlugs ==
    { <<>>, <<"a", "b">>, <<"B", " ", "a">>, <<".", ".", "/", "x">>, <<"a", "/", "b">>,
      ClimbingSlug }

\* The request bodies of the runs with several requests.
SmallBodies ==
    { Body(<<"a", " ", "b">>, <<>>),
      Body(<<"a">>, <<"a", "-", "b">>),
      Body(<<"U+017B">>, <<>>),
      Body(<<>>, <<"x">>),
      Body(<<"x">>, <<".", ".", "/", "x">>),
      Body(<<"h">>, HomeSlug) }

\* Several requests, in any order and interleaving, on the base template.
Init == \E box \in SeqsUpTo(SmallBodies, MaxReqs) : InitWith(BaseTemplate, 1, box)

Spec == Init /\ [][Next]_vars

\* One page creation on any template.
InitGen ==
    \E tpl \in Templates : InitWith(tpl, 1, <<Body(<<"a", " ", "b">>, <<>>)>>)

SpecGen == InitGen /\ [][Next]_vars

\* One page creation with any name and slug.
InitSlug ==
    \E name \in Names, slug \in ExplicitSlugs :
        InitWith(BaseTemplate, 1, <<Body(name, slug)>>)

SpecSlug == InitSlug /\ [][Next]_vars

\* The documents generateStaticPage makes of the shorter templates.
GeneratedTemplates ==
    {GenerateText(Flatten(fs), p) :
        fs \in SeqsUpTo(Fragments, MaxFragments - 1), p \in 1..MaxPageId}

\* One page creation with a generated document in the place of the template.
InitRegen ==
    \E tpl \in GeneratedTemplates : InitWith(tpl, 1, <<Body(<<"a", " ", "b">>, <<>>)>>)

SpecRegen == InitRegen /\ [][Next]_vars

\* Request bodies with two different slugs: one derived from the name and
\* also given with another name, and one that spells the same directory with
\* a leading  ./
PairBodies ==
    { Body(<<"a", " ", "b">>, <<>>),
      Body(<<"a">>, <<"a", "-", "b">>),
      Body(<<"b">>, <<".", "/", "a", "-", "b">>) }

\* Several page creations out of PairBodies, in any order and interleaving.
InitPair == \E box \in SeqsUpTo(PairBodies, MaxReqs) : InitWith(BaseTemplate, 1, box)

SpecPair == InitPair /\ [][Next]_vars

(***************************************************************************)
(* What the claims speak of.                                               *)
(***************************************************************************)
PageIds == 1..MaxPageId

HasHeadClose(doc) == Range(doc) \cap HeadCloseTokens # {}

HasBodyClose(doc) == Range(doc) \cap BodyCloseTokens # {}

WellFormed(doc) == HasHeadClose(doc) /\ HasBodyClose(doc)

ScriptOpenTokens == {"<script>", "<script "}

\* window.PAGE_ID is assigned at position i.
AssignAt(doc, i) ==
    /\ doc[i] = "window.PAGE_ID"
    /\ TokenAt(doc, SkipWhile(doc, i + 1, WsTokens)) = "="

RECURSIVE DeclsFrom(_, _)
\* The script elements from position i on that assign window.PAGE_ID, as an
\* HTML parser finds them: the text of a script element runs from its opening
\* tag to the next closing script tag, whatever stands between them.
DeclsFrom(doc, i) ==
    IF i > Len(doc) THEN <<>>
    ELSE IF doc[i] \in ScriptOpenTokens
         THEN LET c == SkipWhile(doc, i + 1, Range(doc) \ {"</script>"})
              IN  IF c > Len(doc) THEN <<>>
                  ELSE (IF \E k \in (i + 1)..(c - 1) : AssignAt(doc, k)
                        THEN <<[open |-> i, close |-> c]>>
                        ELSE <<>>) \o DeclsFrom(doc, c + 1)
         ELSE DeclsFrom(doc, i + 1)

Decls(doc) == DeclsFrom(doc, 1)

\* The value a declaration assigns: the text after its first  =  .
DeclValue(doc, d) ==
    LET k == CHOOSE k \in (d.open + 1)..(d.close - 1) :
                 /\ AssignAt(doc, k)
                 /\ \A j \in (d.open + 1)..(k - 1) : ~AssignAt(doc, j)
        e == SkipWhile(doc, k + 1, WsTokens)
    IN  SelectSeq(SubSeq(doc, e + 1, d.close - 1), LAMBDA t : t \notin WsTokens)

OneDeclOf(doc, pageId) ==
    /\ Len(Decls(doc)) = 1
    /\ DeclValue(doc, Decls(doc)[1]) = <<ToString(pageId) \o ";">>

SomeWritten == \E r \in DOMAIN reqs : reqs[r].gen = "ok"

\* The documents to judge once a request has written its document: the
\* documents written, each with the page id it was written for, and what
\* generateStaticPage makes of the same template for every other page id.
Generated ==
    IF SomeWritten
    THEN {[id |-> pid, doc |-> GenerateText(Template, pid)] : pid \in PageIds}
            \cup {[id |-> reqs[r].id, doc |-> files[SlugFile(reqs[r].slug)]] :
                     r \in {q \in DOMAIN reqs : reqs[q].gen = "ok"}}
    ELSE {}

NoAssignment(doc) == \A i \in DOMAIN doc : ~AssignAt(doc, i)

AssetClasses ==
    { [root |-> "href=\"/style/", rel |-> "href=\"../style/"],
      [root |-> "src=\"/script.js", rel |-> "src=\"../script.js"],
      [root |-> "src=\"/js/dataLoader.js", rel |-> "src=\"../js/dataLoader.js"],
      [root |-> "href=\"/images/", rel |-> "href=\"../images/"],
      [root |-> "src=\"/images/", rel |-> "src=\"../images/"],
      [root |-> "href=\"/videos/", rel |-> "href=\"../videos/"],
      [root |-> "src=\"/videos/", rel |-> "src=\"../videos/"],
      [root |-> "href=\"/fonts/", rel |-> "href=\"../fonts/"],
      [root |-> "src=\"/fonts/", rel |-> "src=\"../fonts/"] }

\* References that belong to no asset class.
UnrelatedTokens == {"href=\"/api/", "src=\"/uploads/", "href=\"https://"}

\* C2 as stated: the output holds no root-relative reference of an asset
\* class, and as many parent-relative ones of each class as the template holds
\* root-relative and parent-relative ones together.
C2_AsStated ==
    \A g \in Generated : \A c \in AssetClasses :
        /\ Count(g.doc, {c.root}) = 0
        /\ Count(g.doc, {c.rel}) = Count(Template, {c.root}) + Count(Template, {c.rel})

\* Step 4 adds the data-loader tag to a text that does not name dataLoader.js
\* and has a closing body tag.
LoaderAdded(doc) == Range(doc) \cap DataLoaderTokens = {} /\ HasBodyClose(doc)

\* C2 amended: the output holds no root-relative reference of an asset
\* class, and as many parent-relative ones of each class as the template holds
\* root-relative and parent-relative ones together outside the declarations
\* step 1 removes, and one more of the data-loader class when step 4 adds its
\* tag.
C2_Rewritten ==
    LET kept == StripPageId(Template)
    IN  \A g \in Generated : \A c \in AssetClasses :
            /\ Count(g.doc, {c.root}) = 0
            /\ Count(g.doc, {c.rel}) =
                   Count(kept, {c.root}) + Count(kept, {c.rel})
                     + (IF c.rel = "src=\"../js/dataLoader.js" /\ LoaderAdded(kept)
                        THEN 1 ELSE 0)

\* A document was written from a template with root-relative references of
\* several classes and a parent-relative one.
C2_Witness ==
    /\ SomeWritten
    /\ Count(Template, {"href=\"/style/"}) > 0
    /\ Count(Template, {"src=\"/videos/"}) > 0
    /\ Count(Template, {"href=\"../style/"}) > 0

\* C3 as stated: each reference outside the asset classes stands in the
\* output as often as in the template.
C3_AsStated ==
    \A g \in Generated : \A t \in UnrelatedTokens :
        Count(g.doc, {t}) = Count(Template, {t})

\* C3 amended: each reference outside the asset classes that stands outside
\* the declarations step 1 removes stands in the output, as often as there.
C3_Untouched ==
    LET kept == StripPageId(Template)
    IN  \A g \in Generated : \A t \in UnrelatedTokens :
            Count(g.doc, {t}) = Count(kept, {t})

\* A document was written from a template with unrelated references next to
\* references that are rewritten.
C3_Witness ==
    /\ SomeWritten
    /\ Count(Template, UnrelatedTokens) > 0
    /\ Count(Template, {c.root : c \in AssetClasses}) > 0

\* The script tags whose src names dataLoader.js.
LoaderRefs(doc) ==
    Cardinality({i \in DOMAIN doc :
        /\ doc[i] = "<script "
        /\ TokenAt(doc, i + 1) \in {"src=\"/js/dataLoader.js", "src=\"../js/dataLoader.js"}})

\* C4: from a well-formed template that references the data loader at most
\* once, the output references it exactly once.
C4_OneLoaderReference ==
    (WellFormed(Template) /\ LoaderRefs(Template) <= 1)
        => \A g \in Generated : LoaderRefs(g.doc) = 1

\* The requests whose page row was inserted.
Registered == {r \in DOMAIN reqs : reqs[r].id > 0}

GenFailed(r) == reqs[r].gen \in {"mkdir", "read", "open", "write"}

\* The generated document of request r is in place, whole.
DocumentInPlace(r) ==
    /\ SlugFile(reqs[r].slug) \in DOMAIN files
    /\ files[SlugFile(reqs[r].slug)] = GenerateText(Template, reqs[r].id)

\* C5: with a template that lacks the closing head tag or the closing body
\* tag, generation ends in an error and neither the slug's file nor its
\* directory comes into existence.
C5_MalformedRejected ==
    \A r \in Registered :
        ~WellFormed(Template) =>
            /\ reqs[r].gen # "ok"
            /\ SlugFile(reqs[r].slug) \notin DOMAIN files
            /\ SlugDir(reqs[r].slug) \notin dirs

\* C6: a request whose generateStaticPage call failed is not answered with
\* the success body {id, name, slug}.
C6_FailureReported ==
    \A r \in DOMAIN reqs :
        (reqs[r].pc = "done" /\ GenFailed(r))
            => ~(reqs[r].status = 200 /\ reqs[r].body = "page")

\* C7: every page row a finished request inserted has its generated
\* document at the slug's location.
C7_RegisteredPageHasDocument ==
    \A r \in Registered :
        (reqs[r].pc = "done" /\ \E p \in pages : p.id = reqs[r].id)
            => DocumentInPlace(r)

\* C8: a reader of a generated file finds no file or the whole document, and
\* so does whoever reads it after the request has ended.
C8_AtomicWrite ==
    /\ (observed.seen /\ observed.exists) =>
           \E r \in Registered :
               /\ SlugFile(reqs[r].slug) = observed.path
               /\ observed.text = GenerateText(Template, reqs[r].id)
    /\ \A r \in Registered :
           (reqs[r].pc = "done" /\ SlugFile(reqs[r].slug) \in DOMAIN files)
               => DocumentInPlace(r)

ValidSlug(slug) == slug # <<>> /\ Range(slug) \subseteq SafeChars

\* C9: a request whose slug, derived or given, is empty or holds a character
\* outside a-z, 0-9 and the hyphen is rejected: no page row is inserted for
\* it, nothing is generated, and the answer is not the success answer.
C9_InvalidSlugRejected ==
    \A r \in DOMAIN reqs :
        (reqs[r].name # <<>> /\ ~ValidSlug(reqs[r].slug)) =>
            /\ reqs[r].id = 0
            /\ reqs[r].gen = "none"
            /\ reqs[r].status # 200
            /\ \A p \in pages : p.slug # reqs[r].slug

\* The reference normalization: lowercase the name, put one hyphen for each
\* maximal run of white space, drop every character outside a-z, 0-9, hyphen.
ReferenceSlug(name) ==
    LET low == ToLowerCase(name)
        hyphened == Flatten([i \in DOMAIN low |->
                        IF low[i] \notin WhitespaceChars THEN <<low[i]>>
                        ELSE IF i > 1 /\ low[i - 1] \in WhitespaceChars THEN <<>>
                        ELSE <<"-">>])
        keep == {i \in DOMAIN hyphened : hyphened[i] \in SafeChars}
        nth(k) == CHOOSE i \in keep : Cardinality({j \in keep : j < i}) = k - 1
    IN  [k \in 1..Cardinality(keep) |-> hyphened[nth(k)]]

\* C10: the slug derived for a request without slug is the reference
\* normalization of its name, and holds only characters of a-z, 0-9, hyphen.
C10_DerivedSlug ==
    \A r \in DOMAIN reqs :
        (reqs[r].given = <<>> /\ reqs[r].name # <<>>) =>
            /\ reqs[r].slug = ReferenceSlug(reqs[r].name)
            /\ Range(reqs[r].slug) \subseteq SafeChars

\* A slug was derived from a name with a capital letter and a run of two
\* white-space characters.
C10_Witness ==
    \E r \in DOMAIN reqs :
        /\ reqs[r].given = <<>>
        /\ "B" \in Range(reqs[r].name)
        /\ \E i \in 1..(Len(reqs[r].name) - 1) :
               reqs[r].name[i] \in WhitespaceChars /\ reqs[r].name[i + 1] \in WhitespaceChars
        /\ reqs[r].slug = <<"b", "-">>

\* The location the naming convention gives a slug's document: the file
\* <slug>.html in the directory <slug> under the frontend root.
SlugLocation(slug) == FrontendRoot \o <<slug, slug \o <<".html">>>>

\* C11: every file other than the template is the document of a registered
\* page and stands at the location of the page's slug: in the directory named
\* after the slug under the frontend root, under the name <slug>.html.
C11_StoredUnderSlug ==
    \A p \in DOMAIN files :
        p # TemplatePath => \E r \in Registered : p = SlugLocation(reqs[r].slug)

\* A step leaves the template as it was.
TemplateKept == TemplatePath \in DOMAIN files' /\ (files')[TemplatePath] = Template

\* C12: no step changes the template: whatever pages are created, with
\* whatever slugs the registration accepts, frontend/index.html keeps its
\* content.
C12_TemplateUnchanged ==
    [][TemplateKept]_vars

Assignments(doc) == {i \in DOMAIN doc : AssignAt(doc, i)}

C15_Independent ==
    \A r1 \in Registered : \A r2 \in Registered :
        reqs[r1].slug # reqs[r2].slug =>
            /\ SlugFile(reqs[r1].slug) # SlugFile(reqs[r2].slug)
            /\ (reqs[r1].gen = "ok" /\ writing = NoWrite) => DocumentInPlace(r1)

(***************************************************************************)
(* Loading a generated document: its scripts run in document order, then   *)
(* the DOMContentLoaded handler of dataLoader.js (part_000 14-32).         *)
(***************************************************************************)

\* The number the text of a declaration's value denotes; 0 when the script
\* does not parse and assigns nothing.
PageIdValue(v) ==
    IF \E n \in 1..9 : v = <<ToString(n) \o ";">>
    THEN CHOOSE n \in 1..9 : v = <<ToString(n) \o ";">>
    ELSE 0

\* window.PAGE_ID when DOMContentLoaded fires: what the last declaration that
\* ran assigned, 0 for undefined.
WindowPageId(doc) ==
    LET ds == Decls(doc)
        ran == {k \in DOMAIN ds : PageIdValue(DeclValue(doc, ds[k])) > 0}
    IN  IF ran = {} THEN 0
        ELSE PageIdValue(DeclValue(doc, ds[CHOOSE k \in ran : \A j \in ran : j <= k]))

\* const pageId = window.PAGE_ID || 1  (part_000 15)
LoaderPageId(doc) == IF WindowPageId(doc) # 0 THEN WindowPageId(doc) ELSE 1

\* The pageId values of the requests /api/home?pageId=... the loaded document
\* sends: the handler is registered when a script tag loads dataLoader.js.
LoadRequests(doc) == IF LoaderRefs(doc) = 0 THEN {} ELSE {LoaderPageId(doc)}

\* const pageId = parseInt(req.query.pageId) || 1  (server.js 186)
HomePageId(query) == IF query # 0 THEN query ELSE 1

\* C16: the document generated for page N, when loaded, requests
\* /api/home?pageId=N, and the server answers with the content of page N.
C16_FetchesOwnPage ==
    \A g \in Generated :
        /\ LoadRequests(g.doc) = {g.id}
        /\ {HomePageId(q) : q \in LoadRequests(g.doc)} = {g.id}

\* generateStaticPage has been called for request r.
Invoked(r) == reqs[r].pc = "writing" \/ reqs[r].gen # "none"

\* The requests that failed: missing name, slug taken, insert error.
Failed(r) == reqs[r].status \in {400, 500}

\* generateStaticPage is called for the requests whose page row was inserted,
\* once each (a call ends the request), and for no request that failed.
TriggeredByInsert ==
    \A r \in DOMAIN reqs :
        /\ Invoked(r) => reqs[r].id > 0 /\ reqs[r].pc \in {"writing", "done"}
        /\ (reqs[r].pc = "done" /\ reqs[r].id > 0) => Invoked(r)
        /\ Failed(r) => ~Invoked(r) /\ reqs[r].id = 0

\* A step leaves every document that has been written as it is.
DocumentsKept ==
    \A r \in DOMAIN reqs :
        reqs[r].gen = "ok" =>
            /\ SlugFile(reqs[r].slug) \in DOMAIN files'
            /\ (files')[SlugFile(reqs[r].slug)] = files[SlugFile(reqs[r].slug)]

\* C17: generateStaticPage is called exactly once for each request whose
\* page row was inserted and never for a failed request, and the document of
\* a slug, once written, is never written again.
C17_SoleTrigger == []TriggeredByInsert /\ [][DocumentsKept]_vars

\* C18: of the requests that carry one slug, in whatever order their steps
\* are taken, at most one inserts a page row and at most one calls
\* generateStaticPage, and no two page rows have the same slug.
C18_SlugUnique ==
    /\ \A r1 \in DOMAIN reqs : \A r2 \in DOMAIN reqs :
           (r1 # r2 /\ reqs[r1].slug = reqs[r2].slug) =>
               /\ ~(reqs[r1].id > 0 /\ reqs[r2].id > 0)
               /\ ~(Invoked(r1) /\ Invoked(r2))
    /\ \A p1 \in pages : \A p2 \in pages : p1.slug = p2.slug => p1 = p2

\* Two requests with different names and the same slug both passed the check
\* of the slug before either inserted: one insert failed on the constraint,
\* the other request wrote its document.
C18_Witness ==
    \E r1 \in DOMAIN reqs : \E r2 \in DOMAIN reqs :
        /\ reqs[r1].name # reqs[r2].name
        /\ reqs[r1].slug = reqs[r2].slug
        /\ reqs[r1].status = 500
        /\ reqs[r2].gen = "ok"

\* The document of page pageId after step 3, the asset rewrites.
Rewritten(tpl, pageId) == RewriteAssets(InjectPageId(StripPageId(tpl), pageId))

\* out is doc with the loader tag put in immediately before a closing body tag.
LoaderAppended(doc, out) ==
    \E i \in DOMAIN doc :
        /\ doc[i] \in BodyCloseTokens
        /\ out = SubSeq(doc, 1, i - 1) \o LoaderTag \o <<"\n", "</body>">>
                    \o SubSeq(doc, i + 1, Len(doc))

\* C19: step 4 puts the loader tag with src ../js/dataLoader.js immediately
\* before the closing body tag when the document after the asset rewrites
\* holds no script tag that references dataLoader.js, and leaves the document
\* as it is when it holds one.
C19_LoaderAppendedWhenAbsent ==
    \A g \in Generated :
        LET doc == Rewritten(Template, g.id)
        IN  IF LoaderRefs(doc) = 0
            THEN LoaderAppended(doc, g.doc)
            ELSE g.doc = doc

(***************************************************************************)
(* The admin panel (frontend/js/adminPanel.js): one panel, logged in, next *)
(* to the server.  A request of the panel is answered at any later time,   *)
(* so answers arrive in any order.                                         *)
(***************************************************************************)
serverVars ==
    <<files, dirs, pages, lastID, nav, welcome_header, footer, reqs, writing,
      observed, stats, locations, video_frames, gallery, uploads>>

\* The value JavaScript gives page.name when the answer has no name.
Undefined == <<"undefined">>

\* loadPages (79-131), from the answer of GET /api/pages on: the sidebar is
\* rebuilt from the rows in order of id, the first row becomes current when
\* currentPageId is not set, the name of the current row is taken over, and
\* fetchHomeData(currentPageId) is called.
LoadPagesDone ==
    /\ panel.loads > 0
    /\ writing = NoWrite
    /\ Len(panel.fetches) < MaxFetches
    /\ LET rows == {[id |-> p.id, name |-> p.name] : p \in pages}
           first == CHOOSE p \in rows : \A q \in rows : p.id <= q.id
           cur == IF panel.currentPageId = 0 THEN first.id ELSE panel.currentPageId
           name0 == IF panel.currentPageId = 0 THEN first.name
                    ELSE panel.currentPageName
           name1 == IF \E p \in rows : p.id = cur
                    THEN (CHOOSE p \in rows : p.id = cur).name
                    ELSE name0
       IN  panel' = [panel EXCEPT !.loads = @ - 1, !.list = rows,
                                  !.currentPageId = cur, !.currentPageName = name1,
                                  !.fetches = Append(@, cur)]
    /\ UNCHANGED <<serverVars, api>>
    /\ UNCHANGED inbox

\* selectPage(pageId, pageName) (134-148), called by a click on a link of
\* the sidebar.
SelectPage(p) ==
    /\ p \in panel.list
    /\ Len(panel.fetches) < MaxFetches
    /\ panel' = [panel EXCEPT !.currentPageId = p.id, !.currentPageName = p.name,
                              !.fetches = Append(@, p.id)]
    /\ UNCHANGED <<serverVars, api>>
    /\ UNCHANGED inbox

\* addPage (150-160) up to the POST it sends: the body holds the name only.
AddPage(name) ==
    /\ Len(reqs) + Len(inbox) < MaxAdds
    /\ inbox' = Append(inbox, Body(name, <<>>))
    /\ panel' = [panel EXCEPT !.posts = @ \cup {Len(reqs) + Len(inbox) + 1}]
    /\ UNCHANGED <<serverVars, api>>

\* addPage (160-165) from the answer of the POST on: id and name of the
\* answer become current, whatever the status, and loadPages is called.
AddPageDone(r) ==
    /\ r \in panel.posts
    /\ r \in DOMAIN reqs
    /\ reqs[r].pc = "done"
    /\ panel' = [panel EXCEPT
            !.posts = @ \ {r},
            !.currentPageId = IF reqs[r].status = 200 THEN reqs[r].id ELSE 0,
            !.currentPageName = IF reqs[r].status = 200 THEN reqs[r].name
                                ELSE Undefined,
            !.loads = @ + 1]
    /\ UNCHANGED <<serverVars, api>>
    /\ UNCHANGED inbox

\* The sequence s without its k-th element.
Without(s, k) == SubSeq(s, 1, k - 1) \o SubSeq(s, k + 1, Len(s))

\* fetchHomeData (171-251) from the answer of /api/home?pageId=... on: the
\* form is filled with the data of the page the server looked up (server.js
\* 185-210).  Nothing compares the pageId of the request with currentPageId.
HomeDataDone(k) ==
    /\ k \in DOMAIN panel.fetches
    /\ writing = NoWrite
    /\ panel' = [panel EXCEPT !.shown = HomePageId(panel.fetches[k]),
                              !.fetches = Without(@, k)]
    /\ UNCHANGED <<serverVars, api>>
    /\ UNCHANGED inbox

\* The names typed into the prompt of addPage.
PromptNames == { <<"a", " ", "b">>, <<"x">> }

NextAdmin ==
    \/ Next
    \/ LoadPagesDone
    \/ \E p \in panel.list : SelectPage(p)
    \/ \E name \in PromptNames : AddPage(name)
    \/ \E r \in panel.posts : AddPageDone(r)
    \/ \E k \in DOMAIN panel.fetches : HomeDataDone(k)

\* The server with the home page and one more page, and the panel just opened.
InitAdmin == InitWith(BaseTemplate, 2, <<>>)

SpecAdmin == InitAdmin /\ [][NextAdmin]_vars

\* No request of the panel is on its way.
PanelIdle == panel.loads = 0 /\ panel.posts = {} /\ panel.fetches = <<>>

\* C20: when every request of the panel has been answered, in whatever
\* order, the form shows the data of the page currentPageId names.
C20_FormShowsCurrentPage == PanelIdle => panel.shown = panel.currentPageId

(***************************************************************************)
(* The routes behind authenticateToken (server.js 159-168) and the three   *)
(* PUT handlers of the one-row-per-page tables (213-222, 250-259, 347-356).*)
(***************************************************************************)

\* A request: its route, the token of its Authorization header ("none",
\* "invalid" or "valid"), pageId of the query string (0: none), the values of
\* the body, the row id of the path, and for POST /api/pages the body.
ApiCall(route, token, pageId, val, id, body) ==
    [route |-> route, token |-> token, pageId |-> pageId, val |-> val, id |-> id,
     body |-> body, pc |-> "new", status |-> 0]

PutRoutes == <<"PUT /api/nav", "PUT /api/welcome-header", "PUT /api/footer">>

UploadRoutes == {"POST /api/video-frames", "POST /api/gallery"}

Answer(q, status) == [q EXCEPT !.pc = "done", !.status = status]

\* authenticateToken up to jwt.verify (160-163): no token, 401.
AuthenticateToken(k) ==
    /\ api[k].pc = "new"
    /\ writing = NoWrite
    /\ api' = [api EXCEPT ![k] =
                  IF @.token = "none" THEN Answer(@, 401)
                  ELSE [api[k] EXCEPT !.pc = "verify"]]
    /\ UNCHANGED <<files, dirs, pages, lastID, nav, welcome_header, footer, inbox,
                   reqs, writing, observed, panel, stats, locations, video_frames,
                   gallery, uploads>>

\* Where next() leads: the handler of POST /api/pages (the request joins
\* inbox), multer for the upload routes, the first statement of the others.
AfterAuth(route) ==
    IF route = "POST /api/pages" THEN "pages"
    ELSE IF route \in UploadRoutes THEN "multer"
    ELSE IF route \in Range(PutRoutes) THEN "insert"
    ELSE "handler"

\* jwt.verify with its error left unread: next() whatever the token.
VerifyDone_NoCheck(k) ==
    /\ api[k].pc = "verify"
    /\ writing = NoWrite
    /\ api' = [api EXCEPT ![k].pc = AfterAuth(api[k].route)]
    /\ inbox' = IF api[k].route = "POST /api/pages"
                THEN Append(inbox, api[k].body)
                ELSE inbox
    /\ UNCHANGED <<files, dirs, pages, lastID, nav, welcome_header, footer,
                   reqs, writing, observed, panel, stats, locations, video_frames,
                   gallery, uploads>>

\* The callback of jwt.verify (163-167): an invalid token, 403; else next().
VerifyDone(k) ==
    /\ api[k].pc = "verify"
    /\ writing = NoWrite
    /\ api' = [api EXCEPT ![k] =
                  IF @.token # "valid" THEN Answer(@, 403)
                  ELSE [api[k] EXCEPT !.pc = AfterAuth(api[k].route)]]
    /\ inbox' = IF api[k].token = "valid" /\ api[k].route = "POST /api/pages"
                THEN Append(inbox, api[k].body)
                ELSE inbox
    /\ UNCHANGED <<files, dirs, pages, lastID, nav, welcome_header, footer,
                   reqs, writing, observed, panel, stats, locations, video_frames,
                   gallery, uploads>>

\* INSERT OR IGNORE INTO <table> (page_id, ...) VALUES (pageId, '', ...): the
\* tables have no constraint on page_id (48-55, 67-73, 102-109) and the id is
\* generated, so nothing is there to ignore and the row is inserted.
InsertOrIgnore(table, pageId) == Append(table, Row(pageId, 0))

\* UPDATE <table> SET ... WHERE page_id=?
UpdateWhere(table, pageId, val) ==
    [i \in DOMAIN table |->
        IF table[i].page_id = pageId THEN Row(pageId, val) ELSE table[i]]

\* The callback of the INSERT OR IGNORE of a PUT handler (216, 253, 350).
PutInsertDone(k) ==
    /\ api[k].pc = "insert"
    /\ writing = NoWrite
    /\ LET q == api[k]
           pageId == HomePageId(q.pageId)
       IN  /\ nav' = IF q.route = PutRoutes[1] THEN InsertOrIgnore(nav, pageId) ELSE nav
           /\ welcome_header' = IF q.route = PutRoutes[2]
                                THEN InsertOrIgnore(welcome_header, pageId)
                                ELSE welcome_header
           /\ footer' = IF q.route = PutRoutes[3]
                        THEN InsertOrIgnore(footer, pageId) ELSE footer
    /\ api' = [api EXCEPT ![k].pc = "update"]
    /\ UNCHANGED <<files, dirs, pages, lastID, inbox, reqs, writing, observed, panel,
                   stats, locations, video_frames, gallery, uploads>>

\* The UPDATE of a PUT handler and its callback (217-220, 254-257, 351-354).
PutUpdateDone(k) ==
    /\ api[k].pc = "update"
    /\ writing = NoWrite
    /\ LET q == api[k]
           pageId == HomePageId(q.pageId)
       IN  /\ nav' = IF q.route = PutRoutes[1] THEN UpdateWhere(nav, pageId, q.val)
                     ELSE nav
           /\ welcome_header' = IF q.route = PutRoutes[2]
                                THEN UpdateWhere(welcome_header, pageId, q.val)
                                ELSE welcome_header
           /\ footer' = IF q.route = PutRoutes[3]
                        THEN UpdateWhere(footer, pageId, q.val) ELSE footer
    /\ api' = [api EXCEPT ![k] = Answer(@, 200)]
    /\ UNCHANGED <<files, dirs, pages, lastID, inbox, reqs, writing, observed, panel,
                   stats, locations, video_frames, gallery, uploads>>

(***************************************************************************)
(* The saves of the admin panel (adminPanel.js 253-270, 334-356).          *)
(***************************************************************************)

\* The PUT of saveNav, saveWelcome or saveFooter (i = 1, 2, 3): the values
\* of the form's fields, to the pageId currentPageId holds at this moment.
SaveCall(i) ==
    ApiCall(PutRoutes[i], "valid", panel.currentPageId, panel.shown, 0, <<>>)

panelServerVars ==
    <<files, dirs, pages, lastID, nav, welcome_header, footer, reqs, writing,
      observed, stats, locations, video_frames, gallery, uploads, inbox>>

\* saveNav, saveWelcome, saveFooter called by the change event of a field
\* (31-37, 67-69).
Save(i) ==
    /\ Len(api) < MaxChanges
    /\ api' = Append(api, SaveCall(i))
    /\ UNCHANGED panel
    /\ UNCHANGED panelServerVars

\* saveAll (346-356) up to its first await: saveNav has sent its PUT.
SaveAllStart ==
    /\ panel.saving = <<>>
    /\ Len(api) + Len(PutRoutes) <= MaxSaves
    /\ api' = Append(api, SaveCall(1))
    /\ panel' = [panel EXCEPT !.saving = <<1, Len(api) + 1>>]
    /\ UNCHANGED panelServerVars

\* saveAll resumed by the answer it waits for: the next save sends its PUT,
\* or saveAll ends after saveFooter.
SaveAllNext ==
    /\ panel.saving # <<>>
    /\ api[panel.saving[2]].pc = "done"
    /\ IF panel.saving[1] < Len(PutRoutes)
       THEN /\ api' = Append(api, SaveCall(panel.saving[1] + 1))
            /\ panel' = [panel EXCEPT !.saving = <<@[1] + 1, Len(api) + 1>>]
       ELSE /\ panel' = [panel EXCEPT !.saving = <<>>]
            /\ UNCHANGED api
    /\ UNCHANGED panelServerVars

NextSave ==
    \/ LoadPagesDone
    \/ \E p \in panel.list : SelectPage(p)
    \/ \E k \in DOMAIN panel.fetches : HomeDataDone(k)
    \/ \E i \in DOMAIN PutRoutes : Save(i)
    \/ SaveAllStart
    \/ SaveAllNext
    \/ \E k \in DOMAIN api : AuthenticateToken(k)
    \/ \E k \in DOMAIN api : VerifyDone(k)
    \/ \E k \in DOMAIN api : PutInsertDone(k)
    \/ \E k \in DOMAIN api : PutUpdateDone(k)

\* The panel just opened, with the home page and one more page on the server.
InitSave == InitWith(BaseTemplate, 2, <<>>)

SpecSave == InitSave /\ [][NextSave]_vars

\* C21: every save of the panel that sends values loaded into the form sends
\* them to the page they were loaded from.
\* The values a row holds are those of its own page (a row's val names the
\* page its values were loaded from, 0 for blank values).
OwnValues(table) ==
    \A i \in DOMAIN table : table[i].val # 0 => table[i].val = table[i].page_id

\* C21: every save of the panel stores the form's values under the page they
\* were loaded from; after selectPage(B), before B's data arrived, a save
\* never stores the displayed values of page A under page B.
C21_SaveToLoadedPage ==
    /\ OwnValues(nav)
    /\ OwnValues(welcome_header)
    /\ OwnValues(footer)

(***************************************************************************)
(* PUT /api/nav, /api/welcome-header and /api/footer next to page          *)
(* creations (server.js 213-222, 250-259, 347-356, 365-399).               *)
(***************************************************************************)
MaxPuts == 2

\* The PUT requests of a logged-in admin: no pageId in the query, or that of
\* the home page or of a page created in the run.
PutCalls ==
    { ApiCall(PutRoutes[i], "valid", p, p, 0, <<>>) : i \in DOMAIN PutRoutes, p \in 0..2 }

InitPut ==
    \E box \in SeqsUpTo({Body(<<"x">>, <<>>)}, 1), calls \in SeqsUpTo(PutCalls, MaxPuts) :
        InitFull(BaseTemplate, 1, box, calls)

NextPut ==
    \/ Next
    \/ \E k \in DOMAIN api : AuthenticateToken(k)
    \/ \E k \in DOMAIN api : VerifyDone(k)
    \/ \E k \in DOMAIN api : PutInsertDone(k)
    \/ \E k \in DOMAIN api : PutUpdateDone(k)

SpecPut == InitPut /\ [][NextPut]_vars

RowsOf(table, pageId) == {i \in DOMAIN table : table[i].page_id = pageId}

\* C22: each page has exactly one row in each of nav, welcome_header and
\* footer, whatever page creations and PUT requests were made; a PUT updates
\* the row there is and adds none.
C22_OneRowPerPage ==
    \A p \in pages :
        /\ Cardinality(RowsOf(nav, p.id)) = 1
        /\ Cardinality(RowsOf(welcome_header, p.id)) = 1
        /\ Cardinality(RowsOf(footer, p.id)) = 1

(***************************************************************************)
(* Where generateStaticPage writes (server.js 411-415, 448-449).           *)
(***************************************************************************)

\* p names a file in a subdirectory of the frontend root.
InSubdirectory(p) ==
    /\ Len(p) >= Len(FrontendRoot) + 2
    /\ Prefix(p, Len(FrontendRoot)) = FrontendRoot

\* The files a step wrote: those it created and those whose text it changed.
Written ==
    {p \in DOMAIN files' : p \notin DOMAIN files \/ (files')[p] # files[p]}

WrittenInSubdirectory == \A p \in Written : InSubdirectory(p)

\* C23: every file generateStaticPage writes lies inside the frontend root,
\* in a subdirectory of it, whatever slug POST /api/pages accepted, slugs
\* with path separators or dot segments included.
C23_WritesUnderFrontendRoot == [][WrittenInSubdirectory]_vars

(***************************************************************************)
(* The other handlers behind authenticateToken (server.js 225-247,         *)
(* 268-291, 299-321, 330-345).  A row's id is its index in the table; a    *)
(* deleted row leaves a blank behind so that the ids of the others stay.   *)
(***************************************************************************)
InsertRoutes == {"POST /api/stats", "POST /api/locations"}

DeleteRoutes == {"DELETE /api/stats/:id", "DELETE /api/locations/:id"}

UnlinkRoutes == {"DELETE /api/video-frames/:id", "DELETE /api/gallery/:id"}

DeletedFile == FileRow(0, <<>>)

\* DELETE FROM <table> WHERE id=?
DeleteWhere(table, id, blank) ==
    [i \in DOMAIN table |-> IF i = id THEN blank ELSE table[i]]

\* The callback of the INSERT of POST /api/stats and POST /api/locations
\* (271-274, 333-336).
RowInsertDone(k, err) ==
    /\ api[k].pc = "handler"
    /\ api[k].route \in InsertRoutes
    /\ writing = NoWrite
    /\ LET q == api[k]
           row == Row(HomePageId(q.pageId), q.val)
       IN  /\ stats' = IF ~err /\ q.route = "POST /api/stats"
                       THEN Append(stats, row) ELSE stats
           /\ locations' = IF ~err /\ q.route = "POST /api/locations"
                           THEN Append(locations, row) ELSE locations
           /\ api' = [api EXCEPT ![k] = Answer(q, IF err THEN 500 ELSE 200)]
    /\ UNCHANGED <<files, dirs, pages, lastID, nav, welcome_header, footer, inbox,
                   reqs, writing, observed, panel, video_frames, gallery, uploads>>

\* The callback of the UPDATE of PUT /api/stats/:id (279-282).
StatUpdateDone(k, err) ==
    /\ api[k].pc = "handler"
    /\ api[k].route = "PUT /api/stats/:id"
    /\ writing = NoWrite
    /\ LET q == api[k]
       IN  /\ stats' = IF ~err /\ q.id \in DOMAIN stats /\ stats[q.id] # Deleted
                       THEN [stats EXCEPT ![q.id].val = q.val]
                       ELSE stats
           /\ api' = [api EXCEPT ![k] = Answer(q, IF err THEN 500 ELSE 200)]
    /\ UNCHANGED <<files, dirs, pages, lastID, nav, welcome_header, footer, inbox,
                   reqs, writing, observed, panel, locations, video_frames, gallery,
                   uploads>>

\* The callback of the DELETE of DELETE /api/stats/:id and
\* DELETE /api/locations/:id (287-290, 341-344).
RowDeleteDone(k, err) ==
    /\ api[k].pc = "handler"
    /\ api[k].route \in DeleteRoutes
    /\ writing = NoWrite
    /\ LET q == api[k]
       IN  /\ stats' = IF ~err /\ q.route = "DELETE /api/stats/:id"
                       THEN DeleteWhere(stats, q.id, Deleted) ELSE stats
           /\ locations' = IF ~err /\ q.route = "DELETE /api/locations/:id"
                           THEN DeleteWhere(locations, q.id, Deleted) ELSE locations
           /\ api' = [api EXCEPT ![k] = Answer(q, IF err THEN 500 ELSE 200)]
    /\ UNCHANGED <<files, dirs, pages, lastID, nav, welcome_header, footer, inbox,
                   reqs, writing, observed, panel, video_frames, gallery, uploads>>

\* The names multer gives the files of request k (149-153): new ones.
Stored(k, n) == {<<k, j>> : j \in 1..n}

\* upload.array (225, 299) after authenticateToken: the files of the request,
\* val of them, are stored in the uploads directory (143-155).
MulterDone(k) ==
    /\ api[k].pc = "multer"
    /\ writing = NoWrite
    /\ uploads' = uploads \cup Stored(k, api[k].val)
    /\ api' = [api EXCEPT ![k].pc = "handler"]
    /\ UNCHANGED <<files, dirs, pages, lastID, nav, welcome_header, footer, inbox,
                   reqs, writing, observed, panel, stats, locations, video_frames,
                   gallery>>

\* The rows of the stored files of request k.
StoredRows(k, pageId, n) == [j \in 1..n |-> FileRow(pageId, <<k, j>>)]

\* The handlers of POST /api/video-frames and POST /api/gallery (226-234,
\* 300-308).
UploadDone(k) ==
    /\ api[k].pc = "handler"
    /\ api[k].route \in UploadRoutes
    /\ writing = NoWrite
    /\ LET q == api[k]
           rows == StoredRows(k, HomePageId(q.pageId), q.val)
       IN  /\ video_frames' = IF q.route = "POST /api/video-frames"
                              THEN video_frames \o rows ELSE video_frames
           /\ gallery' = IF q.route = "POST /api/gallery"
                         THEN gallery \o rows ELSE gallery
           /\ api' = [api EXCEPT ![k] = Answer(q, IF q.val = 0 THEN 400 ELSE 200)]
    /\ UNCHANGED <<files, dirs, pages, lastID, nav, welcome_header, footer, inbox,
                   reqs, writing, observed, panel, stats, locations, uploads>>

FileTable(route) ==
    IF route = "DELETE /api/video-frames/:id" THEN video_frames ELSE gallery

\* The callback of SELECT file_path FROM <table> WHERE id=? (238-240,
\* 312-314): no row, 404; else the path is kept for fs.unlink.
FileSelectDone(k) ==
    /\ api[k].pc = "handler"
    /\ api[k].route \in UnlinkRoutes
    /\ writing = NoWrite
    /\ LET q == api[k]
           table == FileTable(q.route)
       IN  api' = [api EXCEPT ![k] =
                      IF q.id \in DOMAIN table /\ table[q.id] # DeletedFile
                      THEN [q EXCEPT !.pc = "unlink", !.body = table[q.id].file_path]
                      ELSE Answer(q, 404)]
    /\ UNCHANGED <<files, dirs, pages, lastID, nav, welcome_header, footer, inbox,
                   reqs, writing, observed, panel, stats, locations, video_frames,
                   gallery, uploads>>

\* The callback of fs.unlink (241-242, 315-316).
UnlinkDone(k) ==
    /\ api[k].pc = "unlink"
    /\ writing = NoWrite
    /\ uploads' = uploads \ {api[k].body}
    /\ api' = [api EXCEPT ![k].pc = "delete"]
    /\ UNCHANGED <<files, dirs, pages, lastID, nav, welcome_header, footer, inbox,
                   reqs, writing, observed, panel, stats, locations, video_frames,
                   gallery>>

\* The callback of DELETE FROM <table> WHERE id=? (242-244, 316-318).
FileDeleteDone(k) ==
    /\ api[k].pc = "delete"
    /\ writing = NoWrite
    /\ LET q == api[k]
       IN  /\ video_frames' = IF q.route = "DELETE /api/video-frames/:id"
                              THEN DeleteWhere(video_frames, q.id, DeletedFile)
                              ELSE video_frames
           /\ gallery' = IF q.route = "DELETE /api/gallery/:id"
                         THEN DeleteWhere(gallery, q.id, DeletedFile)
                         ELSE gallery
           /\ api' = [api EXCEPT ![k] = Answer(q, 200)]
    /\ UNCHANGED <<files, dirs, pages, lastID, nav, welcome_header, footer, inbox,
                   reqs, writing, observed, panel, stats, locations, uploads>>

(***************************************************************************)
(* Requests to the state-changing routes, with and without a token.        *)
(***************************************************************************)
MaxCalls == 1

Tokens == {"none", "invalid", "valid"}

\* The requests, each route with the inputs its handler reads: a PUT of one
\* of the one-row tables, a page creation, a new stats row or location, a
\* new value for stats row 1 or 3, the deletion of row 1 or 2, an upload of
\* no file or one, the deletion of uploaded file 1 or 2.
AuthCalls ==
    UNION {
        {ApiCall(r, t, 0, 1, 0, <<>>) : r \in Range(PutRoutes) \cup InsertRoutes}
        \cup {ApiCall("POST /api/pages", t, 0, 0, 0, Body(<<"x">>, <<>>))}
        \cup {ApiCall("PUT /api/stats/:id", t, 0, 2, id, <<>>) : id \in {1, 3}}
        \cup {ApiCall(r, t, 0, 0, id, <<>>) : r \in DeleteRoutes \cup UnlinkRoutes,
                                             id \in {1, 2}}
        \cup {ApiCall(r, t, 0, n, 0, <<>>) : r \in UploadRoutes, n \in {0, 1}}
        : t \in Tokens }

InitAuth ==
    \E calls \in SeqsUpTo(AuthCalls, MaxCalls) : InitFull(BaseTemplate, 1, <<>>, calls)

NextAuth ==
    \/ Next
    \/ \E k \in DOMAIN api : AuthenticateToken(k)
    \/ \E k \in DOMAIN api : VerifyDone(k)
    \/ \E k \in DOMAIN api : PutInsertDone(k)
    \/ \E k \in DOMAIN api : PutUpdateDone(k)
    \/ \E k \in DOMAIN api, err \in BOOLEAN : RowInsertDone(k, err)
    \/ \E k \in DOMAIN api, err \in BOOLEAN : StatUpdateDone(k, err)
    \/ \E k \in DOMAIN api, err \in BOOLEAN : RowDeleteDone(k, err)
    \/ \E k \in DOMAIN api : MulterDone(k)
    \/ \E k \in DOMAIN api : UploadDone(k)
    \/ \E k \in DOMAIN api : FileSelectDone(k)
    \/ \E k \in DOMAIN api : UnlinkDone(k)
    \/ \E k \in DOMAIN api : FileDeleteDone(k)

SpecAuth == InitAuth /\ [][NextAuth]_vars

\* What the state-changing routes change: the rows of the database, the
\* uploaded files, the generated documents and their directories.
Stored_state ==
    <<pages, lastID, nav, welcome_header, footer, stats, locations, video_frames,
      gallery, uploads, files, dirs, inbox, reqs, writing>>

Unauthorised(k) == api[k].token # "valid"

\* A request without a valid token never passes authenticateToken and its
\* answer is 401 or 403.
Refused ==
    \A k \in DOMAIN api :
        Unauthorised(k) =>
            /\ api[k].pc \in {"new", "verify", "done"}
            /\ api[k].pc = "done" => api[k].status \in {401, 403}

\* A step of a request without a valid token changes nothing stored.
RefusedKeeps ==
    (\E k \in DOMAIN api : Unauthorised(k) /\ (api')[k] # api[k])
        => UNCHANGED Stored_state

====
